---- MODULE Spec2Model ----
(***************************************************************************)
(* GeometryReader::read_geom of OpenMEEG (geometry_reader.h): the parser   *)
(* of a ".geom" domain description.  One run of read_geom is modelled as a *)
(* state machine over the input stream: every action is one extraction     *)
(* statement (or one whole loop body) of the function, and what the stream *)
(* holds next is drawn from small sets.  Strings are sequences of          *)
(* one-character strings, so that id[0] and id.substr(1) are what they are *)
(* in the source.                                                          *)
(***************************************************************************)
EXTENDS Integers, Sequences, FiniteSets, TLC

\* ------------------------------------------------------------------ bounds

\* Largest count a section header may announce (meshes, interfaces, domains).
MaxCount == 2
\* Length of the file after its section headers, in items: an item is one
\* entry of a section (a mesh, an interface, a domain) or one signed id of a
\* line.  Past the last item every extraction meets the end of the file.
MaxItems == 5
\* Largest major / minor number tried in the header.
MaxVersion == 2

\* m_oriented is an unsigned of 32 bits, kept here as two halves of 16 bits:
\* 2^16
UIntHalf == 65536

\* -------------------------------------------------------------- alphabets

Digit == <<"0", "1", "2", "3", "4", "5", "6", "7", "8", "9">>

Signs == {<<>>, <<"+">>, <<"-">>}
MeshNames == {<<"a">>}
InterfaceNames == {<<"S">>}
DomainNames == {<<"A">>, <<"B">>}
\* a name no mesh and no interface of a modelled file carries
UnknownName == <<"X">>
SharedToken == <<"s", "h", "a", "r", "e", "d">>
Keywords == {"MeshFile", "Meshes", "Interfaces"}

\* ----------------------------------------------------------------- helpers

RECURSIVE name(_)
name(n) ==
    IF n < 10 THEN <<Digit[n + 1]>>
    ELSE name(n \div 10) \o <<Digit[(n % 10) + 1]>>

Range(s) == {s[k] : k \in 1..Len(s)}

RECURSIVE SeqSum(_)
SeqSum(s) == IF s = <<>> THEN 0 ELSE Head(s) + SeqSum(Tail(s))

\* A default-constructed mesh / domain / interface.
EmptyDomain == [name |-> <<>>, halfspaces |-> <<>>, outermost |-> FALSE]
NewInterface(n) ==
    [name |-> n, meshes |-> <<>>, outermost |-> FALSE,
     closure |-> "unchecked", repairs |-> 0]

EmptyGeometry ==
    [version_id |-> "UNSET", vertices |-> 0, meshes |-> <<>>,
     domains |-> <<>>, is_nested |-> FALSE]

NoError == [kind |-> "none", site |-> "none", name |-> <<>>, id |-> <<>>]

\* What the first line of the file holds: whether the literal
\* "# Domain Description " and the "." are there, and the two numbers.
Headers ==
    [lit : BOOLEAN, dot : BOOLEAN, major : 0..MaxVersion, minor : 0..MaxVersion,
     read : {TRUE}]
NoHeader == [lit |-> FALSE, dot |-> FALSE, major |-> 0, minor |-> 0, read |-> FALSE]

VARIABLES
    pc,          \* position in read_geom, or how it ended
    failbit,     \* ifs.fail()
    geom,        \* the caller's Geometry (GeometryReader::geom)
    meshes,      \* local Meshes of the "Meshes" section
    nb_meshes,
    interfaces,  \* local Interfaces
    interfacename, \* Mode B: names collected by the first pass
    nb_interfaces,
    num_domains,
    i,           \* loop index of the running loop (0-based, as in the source)
    dit_out,     \* Domains::iterator dit_out: 0 is no domain of the geometry
    err,         \* the exception thrown
    tok,         \* the signed id being processed, as it was written in the line
    nitems,      \* items taken from the stream so far
    hdr,         \* the header line as it was read
    events       \* what the run has met and done: the keyword at the place of
                 \* the mesh section ("absent" when it is neither "MeshFile"
                 \* nor "Meshes"), the statements of the mesh section it has
                 \* executed, the section headers it has read

vars == <<pc, failbit, geom, meshes, nb_meshes, interfaces, interfacename,
          nb_interfaces, num_domains, i, dit_out, err, tok, nitems, hdr,
          events>>

Init ==
    /\ pc = "open"
    /\ failbit = FALSE
    /\ geom = EmptyGeometry
    /\ meshes = <<>>
    /\ nb_meshes = 0
    /\ interfaces = <<>>
    /\ interfacename = <<>>
    /\ nb_interfaces = 0
    /\ num_domains = 0
    /\ i = 0
    /\ dit_out = 0
    /\ err = NoError
    /\ tok = <<>>
    /\ nitems = 0
    /\ hdr = NoHeader
    /\ events = {}

\* The stream holds another item.
More == nitems < MaxItems

\* throw: the function is left, the geometry stays as it is at that point.
Throw(kind, site, n, x) ==
    /\ pc' = "thrown"
    /\ err' = [kind |-> kind, site |-> site, name |-> n, id |-> x]

\* ------------------------------------------------------ opening and header

\* lines 126-129
Open ==
    /\ pc = "open"
    /\ \E is_open \in BOOLEAN :
          IF is_open
          THEN pc' = "header" /\ UNCHANGED err
          ELSE Throw("OpenError", "open", <<>>, <<>>)
    /\ UNCHANGED <<failbit, geom, meshes, nb_meshes, interfaces, interfacename,
                   nb_interfaces, num_domains, i, dit_out, tok, nitems, hdr,
                   events>>

\* line 134-136: the chain of extractions leaves the stream good
HeaderExtracted(h) == h.lit /\ h.dot

\* line 139 with "&&" written for "||"
VersionAvailableSlip(h) == ~((h.major # 1) /\ (h.minor > 1))

\* line 139
VersionAvailable(h) == ~((h.major # 1) \/ (h.minor > 1))

\* line 144
VersionId(h) == IF h.minor = 0 THEN "VERSION10" ELSE "VERSION11"

\* lines 133-156
ReadHeader ==
    /\ pc = "header"
    /\ \E h \in Headers :
          /\ hdr' = h
          /\ IF ~HeaderExtracted(h)
             THEN /\ Throw("WrongFileFormat", "header", <<>>, <<>>)
                  /\ UNCHANGED geom
             ELSE IF ~VersionAvailable(h)
             THEN /\ Throw("WrongFileFormat", "version", <<>>, <<>>)
                  /\ UNCHANGED geom
             ELSE /\ geom' = [geom EXCEPT !.version_id = VersionId(h)]
                  /\ pc' = IF VersionId(h) = "VERSION11" THEN "meshsec" ELSE "ifacehdr"
                  /\ UNCHANGED err
    /\ UNCHANGED <<failbit, meshes, nb_meshes, interfaces, interfacename,
                   nb_interfaces, num_domains, i, dit_out, tok, nitems, events>>

\* ------------------------------------------------------------ mesh section

\* io_utils::match_alternative: the index of the alternative the stream holds;
\* no alternative there is a failure of the stream, and index is not written.
AlternativeIndex(kw) ==
    CASE kw = "MeshFile" -> 0
      [] kw = "Meshes"   -> 1
      [] OTHER           -> -1

\* switch (index), lines 165-166 and 171
CaseOf(index) ==
    CASE index = 0 -> "case0"
      [] index = 1 -> "case1"
      [] OTHER     -> "ifacehdr"

\* lines 161-165.  "int index;" is not initialised: when nothing matched, the
\* switch reads whatever the variable holds.
MatchAlternative ==
    /\ pc = "meshsec"
    /\ \E kw \in Keywords :
          /\ events' = events \cup {IF AlternativeIndex(kw) >= 0 THEN kw ELSE "absent"}
          /\ IF AlternativeIndex(kw) >= 0
             THEN /\ pc' = CaseOf(AlternativeIndex(kw))
                  /\ UNCHANGED failbit
             ELSE /\ failbit' = TRUE
                  /\ \E index \in {0, 1, 2} : pc' = CaseOf(index)
    /\ UNCHANGED <<geom, meshes, nb_meshes, interfaces, interfacename,
                   nb_interfaces, num_domains, i, dit_out, err, tok, nitems, hdr>>

\* Geometry::load_vtp: the n meshes of one merged file, sharing one vertex pool.
VtpMeshes(n) == [k \in 1..n |-> name(k)]
LoadedVtp(g, n) == [g EXCEPT !.meshes = VtpMeshes(n), !.vertices = n]

\* Where control goes after the statements of "case 0" (lines 166-171).
AfterCase0 == "case1"

\* lines 166-170
LoadVtp ==
    /\ pc = "case0"
    /\ events' = events \cup {"load_vtp"}
    /\ \E n \in 0..MaxCount :
          geom' = LoadedVtp(geom, n)
    /\ pc' = AfterCase0
    /\ UNCHANGED <<failbit, meshes, nb_meshes, interfaces, interfacename,
                   nb_interfaces, num_domains, i, dit_out, err, tok, nitems, hdr>>

\* lines 172-174.  A stream that has failed extracts nothing and leaves
\* nb_meshes as it was declared: not initialised.
ReadNbMeshes ==
    /\ pc = "case1"
    /\ events' = events \cup {"nb_meshes"}
    /\ IF failbit
       THEN /\ \E n \in 0..MaxCount : nb_meshes' = n
            /\ UNCHANGED failbit
       ELSE \E is_number \in BOOLEAN :
               IF is_number
               THEN /\ \E n \in 0..MaxCount : nb_meshes' = n
                    /\ UNCHANGED failbit
               ELSE /\ nb_meshes' = 0
                    /\ failbit' = TRUE
    /\ meshes' = [k \in 1..nb_meshes' |-> <<>>]
    /\ i' = 0
    /\ pc' = "meshloop"
    /\ UNCHANGED <<geom, interfaces, interfacename, nb_interfaces, num_domains,
                   dit_out, err, tok, nitems, hdr>>

\* lines 175-191: one "Mesh [name]: path" entry
ReadMesh ==
    /\ pc = "meshloop"
    /\ i < nb_meshes
    /\ events' = events \cup {"Mesh"}
    /\ IF failbit
       THEN /\ meshes' = [meshes EXCEPT ![i + 1] = <<>>]
            /\ UNCHANGED <<failbit, nitems>>
       ELSE \E keyword_ok \in {b \in BOOLEAN : b => More} :
               IF ~keyword_ok
               THEN /\ failbit' = TRUE
                    /\ meshes' = [meshes EXCEPT ![i + 1] = <<>>]
                    /\ UNCHANGED nitems
               ELSE /\ UNCHANGED failbit
                    /\ nitems' = nitems + 1
                    /\ \E meshname \in MeshNames \cup {name(i + 1)} :
                          meshes' = [meshes EXCEPT ![i + 1] = meshname]
    /\ i' = i + 1
    /\ UNCHANGED <<pc, geom, nb_meshes, interfaces, interfacename, nb_interfaces,
                   num_domains, dit_out, err, tok, hdr>>

\* Geometry::import_meshes: the meshes of the list become the meshes of the
\* geometry, over one pool of vertices.
Imported(g, ms) == [g EXCEPT !.meshes = ms, !.vertices = Len(ms)]

\* lines 193-196
ImportMeshes ==
    /\ pc = "meshloop"
    /\ i = nb_meshes
    /\ events' = events \cup {"import_meshes"}
    /\ geom' = Imported(geom, meshes)
    /\ pc' = "ifacehdr"
    /\ UNCHANGED <<failbit, meshes, nb_meshes, interfaces, interfacename,
                   nb_interfaces, num_domains, i, dit_out, err, tok, nitems, hdr>>

\* ------------------------------------------------------- interface section

\* line 217: which of the two ways of reading the interfaces is taken
MeshesLoaded == Len(geom.meshes) # 0

\* lines 202-217
ReadInterfacesHeader ==
    /\ pc = "ifacehdr"
    /\ IF failbit
       THEN /\ Throw("WrongFileFormat", "interfaces", <<>>, <<>>)
            /\ UNCHANGED <<failbit, nb_interfaces, interfacename, events>>
       ELSE \E keyword_ok \in BOOLEAN :
               IF ~keyword_ok
               THEN /\ failbit' = TRUE
                    /\ Throw("WrongFileFormat", "interfaces", <<>>, <<>>)
                    /\ UNCHANGED <<nb_interfaces, interfacename, events>>
               ELSE /\ \E n \in 0..MaxCount :
                          /\ nb_interfaces' = n
                          /\ interfacename' =
                                IF MeshesLoaded THEN <<>> ELSE [k \in 1..n |-> <<>>]
                    /\ events' = events \cup {"Interfaces"}
                    /\ pc' = IF MeshesLoaded THEN "a_line" ELSE "b_measure"
                    /\ UNCHANGED <<failbit, err>>
    /\ i' = 0
    /\ UNCHANGED <<geom, meshes, nb_meshes, interfaces, num_domains,
                   dit_out, tok, nitems, hdr>>

\* lines 226-241, first pass of the reading without meshes: the name of one
\* interface ("Interface:" or the old format give the default name).
MeasureInterface ==
    /\ pc = "b_measure"
    /\ i < nb_interfaces
    /\ IF failbit
       THEN \* "bool unnamed" is not written by a failed stream
            /\ \E unnamed \in BOOLEAN :
                  interfacename' =
                      IF unnamed \/ geom.version_id = "VERSION10"
                      THEN [interfacename EXCEPT ![i + 1] = name(i + 1)]
                      ELSE interfacename
            /\ UNCHANGED <<failbit, nitems>>
       ELSE IF ~More
       THEN \* the end of the file: no "Interface:", no "Interface", no path
            /\ failbit' = TRUE
            /\ interfacename' =
                  IF geom.version_id = "VERSION10"
                  THEN [interfacename EXCEPT ![i + 1] = name(i + 1)]
                  ELSE interfacename
            /\ UNCHANGED nitems
       ELSE \E unnamed \in BOOLEAN :
               IF unnamed \/ geom.version_id = "VERSION10"
               THEN /\ interfacename' = [interfacename EXCEPT ![i + 1] = name(i + 1)]
                    /\ nitems' = nitems + 1
                    /\ UNCHANGED failbit
               ELSE \E keyword_ok \in BOOLEAN :
                       IF keyword_ok
                       THEN /\ \E n \in InterfaceNames :
                                  interfacename' = [interfacename EXCEPT ![i + 1] = n]
                            /\ nitems' = nitems + 1
                            /\ UNCHANGED failbit
                       ELSE /\ failbit' = TRUE
                            /\ UNCHANGED <<interfacename, nitems>>
    /\ i' = i + 1
    /\ UNCHANGED <<pc, geom, meshes, nb_meshes, interfaces, nb_interfaces,
                   num_domains, dit_out, err, tok, hdr, events>>

\* line 251: the one mesh of an interface read without a mesh section
OneMesh(k) == <<[mesh |-> k, orientation |-> TRUE]>>

\* lines 242-252, second pass: one mesh and one interface per entry
LoadInterfaces ==
    /\ pc = "b_measure"
    /\ i = nb_interfaces
    /\ geom' = [geom EXCEPT !.meshes = interfacename,
                            !.vertices = geom.vertices + nb_interfaces]
    /\ interfaces' = [k \in 1..nb_interfaces |->
                         [NewInterface(interfacename[k]) EXCEPT !.meshes = OneMesh(k)]]
    /\ pc' = "domhdr"
    /\ UNCHANGED <<failbit, meshes, nb_meshes, interfacename, nb_interfaces,
                   num_domains, i, dit_out, err, tok, nitems, hdr, events>>

\* lines 257-272: the line of one interface and its name.  The name is read
\* from the line's own stream: a line without "Interface" leaves the name
\* of the previous interface in interfacename; at the end of the file getline
\* fails and the line is empty.
ReadInterfaceLine ==
    /\ pc = "a_line"
    /\ i < nb_interfaces
    /\ IF ~More
       THEN /\ failbit' = TRUE
            /\ UNCHANGED <<interfacename, nitems>>
       ELSE /\ nitems' = nitems + 1
            /\ UNCHANGED failbit
            /\ \E unnamed \in BOOLEAN :
                  IF unnamed
                  THEN interfacename' = name(i + 1)
                  ELSE \E keyword_ok \in BOOLEAN :
                          IF keyword_ok
                          THEN \E n \in InterfaceNames : interfacename' = n
                          ELSE UNCHANGED interfacename
    /\ interfaces' = Append(interfaces, NewInterface(interfacename'))
    /\ pc' = "a_ids"
    /\ UNCHANGED <<geom, meshes, nb_meshes, nb_interfaces, num_domains,
                   i, dit_out, err, tok, hdr, events>>

\* lines 275, 306: does the id start with a sign
Signed(x) == x # <<>> /\ ((x[1] = "-") \/ (x[1] = "+"))

\* lines 277, 308: id.substr(1,id.size())
StripSign(x) == IF Signed(x) THEN Tail(x) ELSE x

\* lines 274-276
MeshOriented(x) == IF Signed(x) THEN x[1] = "+" ELSE TRUE

\* Geometry::mesh(id): the mesh of that name, 0 when there is none
MeshIndex(n) ==
    IF \E k \in 1..Len(geom.meshes) : geom.meshes[k] = n
    THEN CHOOSE k \in 1..Len(geom.meshes) :
            /\ geom.meshes[k] = n
            /\ \A j \in 1..(k - 1) : geom.meshes[j] # n
    ELSE 0

\* line 279: interfaces[i].push_back(OrientedMesh(geom.mesh(id),oriented))
PushMesh(f, x) ==
    [f EXCEPT !.meshes = Append(@, [mesh |-> MeshIndex(StripSign(x)),
                                    orientation |-> MeshOriented(x)])]

\* lines 273-280: one signed mesh name of the line, or the end of the line
ReadMeshId ==
    /\ pc = "a_ids"
    /\ \/ /\ i' = i + 1
          /\ pc' = "a_line"
          /\ tok' = <<>>
          /\ UNCHANGED <<interfaces, nitems, err>>
       \/ /\ More
          /\ \E sign \in Signs, n \in Range(geom.meshes) \cup {UnknownName} :
                /\ sign \o n # <<>>
                /\ tok' = sign \o n
                /\ nitems' = nitems + 1
                /\ IF MeshIndex(StripSign(tok')) = 0
                   THEN /\ Throw("UnknownMesh", "mesh", <<>>, StripSign(tok'))
                        /\ UNCHANGED interfaces
                   ELSE /\ interfaces' =
                              [interfaces EXCEPT ![i + 1] = PushMesh(@, tok')]
                        /\ UNCHANGED <<pc, err>>
          /\ UNCHANGED i
    /\ UNCHANGED <<failbit, geom, meshes, nb_meshes, interfacename, nb_interfaces,
                   num_domains, dit_out, hdr, events>>

\* the loop of lines 257-281 is over
EndInterfaces ==
    /\ pc = "a_line"
    /\ i = nb_interfaces
    /\ pc' = "domhdr"
    /\ UNCHANGED <<failbit, geom, meshes, nb_meshes, interfaces, interfacename,
                   nb_interfaces, num_domains, i, dit_out, err, tok, nitems,
                   hdr, events>>

\* ---------------------------------------------------------- domain section

\* lines 286-292
ReadDomainsHeader ==
    /\ pc = "domhdr"
    /\ IF failbit
       THEN /\ Throw("WrongFileFormat", "domains", <<>>, <<>>)
            /\ UNCHANGED <<failbit, num_domains, geom, events>>
       ELSE \E keyword_ok \in BOOLEAN :
               IF ~keyword_ok
               THEN /\ failbit' = TRUE
                    /\ Throw("WrongFileFormat", "domains", <<>>, <<>>)
                    /\ UNCHANGED <<num_domains, geom, events>>
               ELSE /\ \E n \in 0..MaxCount :
                          /\ num_domains' = n
                          /\ geom' = [geom EXCEPT !.domains =
                                         [k \in 1..n |->
                                             IF k <= Len(geom.domains)
                                             THEN geom.domains[k] ELSE EmptyDomain]]
                    /\ events' = events \cup {"Domains"}
                    /\ pc' = "dom"
                    /\ UNCHANGED <<failbit, err>>
    /\ i' = 0
    /\ UNCHANGED <<meshes, nb_meshes, interfaces, interfacename, nb_interfaces,
                   dit_out, tok, nitems, hdr>>

\* lines 294-302: "Domain", the name of the domain and the rest of its line.
\* A failed stream gives no name and an empty line.
ReadDomainName ==
    /\ pc = "dom"
    /\ i < num_domains
    /\ IF failbit
       THEN /\ i' = i + 1
            /\ UNCHANGED <<pc, failbit, geom, nitems>>
       ELSE \E keyword_ok \in {b \in BOOLEAN : b => More} :
               IF ~keyword_ok
               THEN /\ failbit' = TRUE
                    /\ i' = i + 1
                    /\ UNCHANGED <<pc, geom, nitems>>
               ELSE /\ \E n \in DomainNames :
                          geom' = [geom EXCEPT !.domains[i + 1].name = n]
                    /\ nitems' = nitems + 1
                    /\ pc' = "dom_ids"
                    /\ UNCHANGED <<failbit, i>>
    /\ UNCHANGED <<meshes, nb_meshes, interfaces, interfacename, nb_interfaces,
                   num_domains, dit_out, err, tok, hdr, events>>

\* lines 305-307 with the convention of the interface lines (line 276)
DomainInsidePlus(x) == IF Signed(x) THEN x[1] = "+" ELSE FALSE

\* lines 305-307
DomainInside(x) == IF Signed(x) THEN x[1] = "-" ELSE FALSE

\* line 309
IsShared(x) == ~Signed(x) /\ x = SharedToken

\* What the surfaces of an interface not yet examined turn out to be.
Outcomes == {"closed", "inverted", "open"}

\* Interface::check: an interface found closed stays so; one whose surfaces
\* are all turned the wrong way is reoriented, once; any other is not closed.
Check(f, o) ==
    IF f.closure = "closed" THEN [ok |-> TRUE, interface |-> f]
    ELSE CASE o = "closed" ->
                [ok |-> TRUE, interface |-> [f EXCEPT !.closure = "closed"]]
           [] o = "inverted" ->
                [ok |-> TRUE,
                 interface |->
                    [f EXCEPT !.closure = "closed",
                              !.repairs = @ + 1,
                              !.meshes = [k \in 1..Len(f.meshes) |->
                                             [f.meshes[k] EXCEPT !.orientation = ~@]]]]
           [] OTHER -> [ok |-> FALSE, interface |-> f]

\* line 316 with the result of the check dropped
NotClosedIgnored(r) == FALSE

\* line 316: the interface is not closed and the run ends in exit(1)
NotClosed(r) == ~r.ok

\* line 314
NameMatches(f, x) == f.name = x

\* line 322
PushHalfSpace(hs, f, inside) == Append(hs, [interface |-> f, inside |-> inside])

\* lines 313-324: the scan of all interfaces for the name x, from the k-th on.
\* st is what the scan has done so far.
RECURSIVE ScanFrom(_, _, _, _, _)
ScanFrom(k, st, x, inside, o) ==
    IF k > Len(st.interfaces) \/ st.exited THEN st
    ELSE IF ~NameMatches(st.interfaces[k], x) THEN ScanFrom(k + 1, st, x, inside, o)
    ELSE LET r == Check(st.interfaces[k], o[k]) IN
         IF NotClosed(r)
         THEN [st EXCEPT !.found = TRUE, !.exited = TRUE]
         ELSE ScanFrom(k + 1,
                       [st EXCEPT !.found = TRUE,
                                  !.interfaces[k] = r.interface,
                                  !.halfspaces = PushHalfSpace(@, r.interface, inside)],
                       x, inside, o)

ScanInterfaces(fs, hs, x, inside, o) ==
    ScanFrom(1, [interfaces |-> fs, halfspaces |-> hs,
                 found |-> FALSE, exited |-> FALSE], x, inside, o)

\* The outcomes of the checks one id can trigger: one for each interface of
\* that name that has not been found closed yet.
OutcomeChoices(fs, x) ==
    {o \in [1..Len(fs) -> Outcomes] :
        \A k \in 1..Len(fs) :
            (fs[k].name # x \/ fs[k].closure = "closed") => o[k] = "closed"}

\* line 325 with "found" declared before the loop over the ids (line 303), so
\* that an id found earlier in the line keeps it true
NotFoundStale(st) == ~(st.found \/ st.halfspaces # <<>>)

\* line 325
NotFound(st) == ~st.found

\* lines 303-327: one id of the domain's line, or the end of the line
ReadDomainId ==
    /\ pc = "dom_ids"
    /\ \/ /\ i' = i + 1
          /\ pc' = "dom"
          /\ tok' = <<>>
          /\ UNCHANGED <<geom, interfaces, nitems, err>>
       \/ /\ More
          /\ \E sign \in Signs,
                n \in {interfaces[k].name : k \in 1..Len(interfaces)}
                         \cup {UnknownName, SharedToken} :
                /\ sign \o n # <<>>
                /\ nitems' = nitems + 1
                /\ tok' = sign \o n
                /\ IF IsShared(tok')
                   THEN /\ i' = i + 1
                        /\ pc' = "dom"
                        /\ UNCHANGED <<geom, interfaces, err>>
                   ELSE /\ \E o \in OutcomeChoices(interfaces, StripSign(tok')) :
                              LET st == ScanInterfaces(interfaces,
                                                       geom.domains[i + 1].halfspaces,
                                                       StripSign(tok'),
                                                       DomainInside(tok'), o)
                              IN  /\ interfaces' = st.interfaces
                                  /\ geom' = [geom EXCEPT
                                                 !.domains[i + 1].halfspaces = st.halfspaces]
                                  /\ IF st.exited
                                     THEN pc' = "exited" /\ UNCHANGED err
                                     ELSE IF NotFound(st)
                                     THEN Throw("NonExistingDomain", "lookup",
                                                geom.domains[i + 1].name,
                                                StripSign(tok'))
                                     ELSE UNCHANGED <<pc, err>>
                        /\ UNCHANGED i
    /\ UNCHANGED <<failbit, meshes, nb_meshes, interfacename, nb_interfaces,
                   num_domains, dit_out, hdr, events>>

\* ----------------------------------------------------------------- analysis

\* lines 335-337
Outer(d) == \A k \in 1..Len(d.halfspaces) : ~d.halfspaces[k].inside

\* lines 334-347: the first domain outside all its interfaces, 0 if none
FirstOuter(ds) ==
    IF \E k \in 1..Len(ds) : Outer(ds[k])
    THEN CHOOSE k \in 1..Len(ds) :
            Outer(ds[k]) /\ \A j \in 1..(k - 1) : ~Outer(ds[j])
    ELSE 0

\* lines 341-344
SetOutermost(d) ==
    [d EXCEPT !.outermost = TRUE,
              !.halfspaces = [k \in 1..Len(d.halfspaces) |->
                                 [d.halfspaces[k] EXCEPT !.interface.outermost = TRUE]]]

\* line 333: "Domains::iterator dit_out;" is given no value.  What it holds
\* when no domain is found is not determined: any domain, or none (0).
Indeterminate(ds) == 0..Len(ds)

\* lines 330-347
FindOutermost ==
    /\ pc = "dom"
    /\ i = num_domains
    /\ LET o == FirstOuter(geom.domains) IN
          IF o # 0
          THEN /\ dit_out' = o
               /\ geom' = [geom EXCEPT !.domains[o] = SetOutermost(@)]
          ELSE /\ dit_out' \in Indeterminate(geom.domains)
               /\ UNCHANGED geom
    /\ pc' = "nested"
    /\ UNCHANGED <<failbit, meshes, nb_meshes, interfaces, interfacename,
                   nb_interfaces, num_domains, i, err, tok, nitems, hdr, events>>

\* lines 356-360
OutInterface(d) == Cardinality({k \in 1..Len(d.halfspaces) : ~d.halfspaces[k].inside})

\* lines 355-365
OutsideTwo(ds, out) ==
    \E k \in 1..Len(ds) : k # out /\ OutInterface(ds[k]) >= 2

\* OrientedMesh::orientation
Orientation(om) == IF om.orientation THEN 1 ELSE -1

\* lines 369-374: m_oriented of the mesh m, an unsigned
InterfaceSum(f, m) ==
    SeqSum([k \in 1..Len(f.meshes) |->
               IF f.meshes[k].mesh = m THEN Orientation(f.meshes[k]) ELSE 0])
DomainSum(d, m) ==
    SeqSum([k \in 1..Len(d.halfspaces) |-> InterfaceSum(d.halfspaces[k].interface, m)])
MOriented(ds, m) ==
    LET sum == SeqSum([k \in 1..Len(ds) |-> DomainSum(ds[k], m)])
    IN  <<(sum \div UIntHalf) % UIntHalf, sum % UIntHalf>>

\* lines 367-380
MeshUnoriented(g) == \E m \in 1..Len(g.meshes) : MOriented(g.domains, m) = <<0, 0>>

\* lines 354-381
Nested(g, out) == ~OutsideTwo(g.domains, out) /\ ~MeshUnoriented(g)

\* lines 349-388
ClassifyNested ==
    /\ pc = "nested"
    /\ geom' = [geom EXCEPT !.is_nested = Nested(geom, dit_out)]
    /\ IF failbit
       THEN Throw("WrongFileFormat", "end", <<>>, <<>>)
       ELSE pc' = "returned" /\ UNCHANGED err
    /\ UNCHANGED <<failbit, meshes, nb_meshes, interfaces, interfacename,
                   nb_interfaces, num_domains, i, dit_out, tok, nitems, hdr,
                   events>>

\* ------------------------------------------------------------ specification

Next ==
    \/ Open
    \/ ReadHeader
    \/ MatchAlternative
    \/ LoadVtp
    \/ ReadNbMeshes
    \/ ReadMesh
    \/ ImportMeshes
    \/ ReadInterfacesHeader
    \/ MeasureInterface
    \/ LoadInterfaces
    \/ ReadInterfaceLine
    \/ ReadMeshId
    \/ EndInterfaces
    \/ ReadDomainsHeader
    \/ ReadDomainName
    \/ ReadDomainId
    \/ FindOutermost
    \/ ClassifyNested

Spec == Init /\ [][Next]_vars

\* ------------------------------------------------------------------ claims

Failed == pc \in {"thrown", "exited"}
MeshStatements == {"load_vtp", "nb_meshes", "Mesh", "import_meshes"}

\* the sign of an id and the id without it, read off the characters
SignOf(x) == IF x # <<>> /\ x[1] \in {"+", "-"} THEN x[1] ELSE ""
Unsigned(x) == IF SignOf(x) = "" THEN x ELSE SubSeq(x, 2, Len(x))

\* C1: a run that ends in a failure leaves the caller's geometry as it was
\* before the call: version tag, vertices, meshes, domains and nested flag.
C1_FailureLeavesGeometry == Failed => geom = EmptyGeometry

\* C2: the parser never terminates the process: an interface that is not
\* closed ends the run with an exception returned to the caller.
C2_NeverExits == pc # "exited"

\* The header as the format describes it, and the refusal of a header.
HeaderGood == hdr.lit /\ hdr.dot /\ hdr.major = 1 /\ hdr.minor \in {0, 1}
HeaderRefused ==
    /\ pc = "thrown"
    /\ err.kind = "WrongFileFormat"
    /\ err.site \in {"header", "version"}
\* C3: the header is accepted exactly when it is the literal followed by
\* major.minor with major = 1 and minor 0 or 1; any other header is refused
\* with the format error before any section is read.
C3_HeaderAcceptance ==
    hdr.read =>
        /\ HeaderGood <=> ~HeaderRefused
        /\ HeaderGood => geom.version_id = (IF hdr.minor = 0 THEN "VERSION10" ELSE "VERSION11")
        /\ HeaderRefused =>
              /\ events = {}
              /\ nitems = 0
              /\ geom = EmptyGeometry
              /\ interfaces = <<>>
C3_Witness ==
    /\ hdr.read /\ hdr.lit /\ hdr.dot /\ hdr.major = 2 /\ hdr.minor = 0
    /\ HeaderRefused

\* C4: in the domain section an id that, without its sign, names no parsed
\* interface (and is not the unsigned word "shared") raises the error that
\* carries the name of the current domain and the id, and no half-space is
\* appended for it.
C4_UnknownInterface ==
    [][(/\ pc = "dom_ids"
        /\ nitems' = nitems + 1
        /\ tok' # SharedToken
        /\ \A k \in 1..Len(interfaces) : interfaces[k].name # Unsigned(tok'))
       => (/\ pc' = "thrown"
           /\ err'.kind = "NonExistingDomain"
           /\ err'.name = geom.domains[i + 1].name
           /\ err'.id = Unsigned(tok')
           /\ geom'.domains = geom.domains)]_vars
C4_Witness ==
    /\ pc = "thrown"
    /\ err.kind = "NonExistingDomain"
    /\ err.name \in DomainNames
    /\ SignOf(tok) = "-"
    /\ err.id = UnknownName
    /\ interfaces # <<>>

\* C5 as it is stated: after a successful run every interface of the Interfaces
\* section, referenced by a domain or not, has passed the closure check.
C5_EveryInterfaceChecked ==
    pc = "returned" =>
        \A k \in 1..Len(interfaces) :
            interfaces[k].closure = "closed" /\ interfaces[k].repairs <= 1

\* Some half-space of some domain holds an interface of that name.
Referenced(f) ==
    \E d \in 1..Len(geom.domains) :
        \E h \in 1..Len(geom.domains[d].halfspaces) :
            geom.domains[d].halfspaces[h].interface.name = f.name
\* C5 as amended: after a successful run every interface a domain references
\* has passed the closure check, after at most one repair; so has the copy of
\* it every half-space holds.
C5_ReferencedInterfacesChecked ==
    pc = "returned" =>
        /\ \A k \in 1..Len(interfaces) :
              Referenced(interfaces[k]) =>
                  interfaces[k].closure = "closed" /\ interfaces[k].repairs <= 1
        /\ \A d \in 1..Len(geom.domains) :
              \A h \in 1..Len(geom.domains[d].halfspaces) :
                  /\ geom.domains[d].halfspaces[h].interface.closure = "closed"
                  /\ geom.domains[d].halfspaces[h].interface.repairs <= 1
C5_Witness ==
    /\ pc = "returned"
    /\ \E k \in 1..Len(interfaces) :
          Referenced(interfaces[k]) /\ interfaces[k].repairs = 1
    /\ \E k \in 1..Len(interfaces) : ~Referenced(interfaces[k])

\* The domains marked outermost, and those outside all their interfaces.
Outside(d) == \A h \in 1..Len(d.halfspaces) : d.halfspaces[h].inside = FALSE
Marked == {k \in 1..Len(geom.domains) : geom.domains[k].outermost}
Qualifying == {k \in 1..Len(geom.domains) : Outside(geom.domains[k])}
\* C6: after a successful run at most one domain is marked outermost; it is
\* the first domain all of whose half-spaces are outside, and all the
\* interfaces of its half-spaces are marked; when no domain qualifies none is
\* marked and the reference to the outermost domain is the absent value (0).
C6_Outermost ==
    pc = "returned" =>
        /\ Cardinality(Marked) <= 1
        /\ \A k \in Marked :
              /\ k \in Qualifying
              /\ \A j \in Qualifying : k <= j
              /\ \A h \in 1..Len(geom.domains[k].halfspaces) :
                    geom.domains[k].halfspaces[h].interface.outermost
        /\ Qualifying # {} => Marked # {} /\ dit_out \in Marked
        /\ Qualifying = {} => Marked = {} /\ dit_out = 0

\* The (domain, half-space, member) places where the mesh m occurs, those
\* where it is oriented, and whether the signed orientations cancel.
Occurrences(m) ==
    {t \in {<<d, h, k>> : d \in 1..Len(geom.domains), h \in 1..MaxItems, k \in 1..MaxItems} :
        /\ t[2] <= Len(geom.domains[t[1]].halfspaces)
        /\ t[3] <= Len(geom.domains[t[1]].halfspaces[t[2]].interface.meshes)
        /\ geom.domains[t[1]].halfspaces[t[2]].interface.meshes[t[3]].mesh = m}
Positive(m) ==
    {t \in Occurrences(m) :
        geom.domains[t[1]].halfspaces[t[2]].interface.meshes[t[3]].orientation}
NetZero(m) == 2 * Cardinality(Positive(m)) = Cardinality(Occurrences(m))
OutsideOfTwo ==
    \E k \in 1..Len(geom.domains) :
        /\ ~geom.domains[k].outermost
        /\ Cardinality({h \in 1..Len(geom.domains[k].halfspaces) :
                           ~geom.domains[k].halfspaces[h].inside}) >= 2
\* C7: the nested flag is false exactly when a domain other than the
\* outermost one is outside two or more interfaces, or the signed
\* orientations of some mesh, over all the places it occurs in, add up to zero.
C7_Nested ==
    pc = "returned" =>
        (geom.is_nested = FALSE
            <=> (OutsideOfTwo \/ \E m \in 1..Len(geom.meshes) : NetZero(m)))

\* C8: the two sign conventions: a half-space appended for an id of a domain
\* is inside exactly when the id starts with "-"; an oriented mesh appended
\* for an id of an interface line is oriented exactly when the id does not
\* start with "-"; both are looked up under the id without its sign.
C8_SignConventions ==
    [][/\ (pc = "dom_ids" /\ nitems' = nitems + 1 /\ tok' # SharedToken)
          => \A h \in 1..Len(geom'.domains[i + 1].halfspaces) :
                h > Len(geom.domains[i + 1].halfspaces) =>
                    /\ geom'.domains[i + 1].halfspaces[h].inside = (SignOf(tok') = "-")
                    /\ geom'.domains[i + 1].halfspaces[h].interface.name = Unsigned(tok')
       /\ (pc = "a_ids" /\ nitems' = nitems + 1 /\ pc' = "a_ids")
          => /\ Len(interfaces'[i + 1].meshes) = Len(interfaces[i + 1].meshes) + 1
             /\ LET om == interfaces'[i + 1].meshes[Len(interfaces'[i + 1].meshes)]
                IN  /\ om.orientation = (SignOf(tok') # "-")
                    /\ geom.meshes[om.mesh] = Unsigned(tok')]_vars
C8_Witness ==
    /\ pc = "dom_ids"
    /\ SignOf(tok) = "-"
    /\ geom.domains[i + 1].halfspaces # <<>>
    /\ geom.domains[i + 1].halfspaces[Len(geom.domains[i + 1].halfspaces)].inside
    /\ \E k \in 1..Len(interfaces) :
          \E j \in 1..Len(interfaces[k].meshes) : ~interfaces[k].meshes[j].orientation

\* C9: in the 1.1 format a file whose first keyword after the header is
\* "Interfaces" has no mesh section, and that is no error: the parser goes on
\* to the interface section with a good stream and no mesh loaded.
C9_MeshSectionOptional ==
    "absent" \in events =>
        /\ events \cap MeshStatements = {}
        /\ pc = "ifacehdr" => ~failbit /\ geom.meshes = <<>>

\* C10: with the keyword "MeshFile" only the merged loader runs: no count of
\* meshes is read, no "Mesh" entry, and the merge of separate meshes never runs.
C10_MeshFileOnly ==
    "MeshFile" \in events => events \cap {"nb_meshes", "Mesh", "import_meshes"} = {}

====
